---- MODULE Spec2Model ----
(***************************************************************************)
(* A model of the GOGREEN class of Code/GOGREEN.py: the catalogs it loads  *)
(* and merges when it is constructed, and the queries it answers after.    *)
(*                                                                         *)
(* Conventions of the model                                                *)
(*   - a Python string is a sequence of one-character strings, so that     *)
(*     strip(), lower(), slicing and os.path.splitext are computed;        *)
(*   - a DataFrame is a record [cols |-> sequence of column names,         *)
(*     rows |-> sequence of records], pd.DataFrame() being NoFrame;        *)
(*   - a float cell is <<v>>, or NaN == <<>> when it is null; redshifts    *)
(*     are counted in hundredths (50 is z = 0.50), so that                 *)
(*     |z - zc| < 0.02*(1+z) reads 100*|z - zc| < 2*(100 + z); binary      *)
(*     floating-point rounding at the edge of a band is not modelled;      *)
(*   - a call returns [ok |-> TRUE, val |-> v] or raises, which is         *)
(*     [ok |-> FALSE, exc |-> name of the Python exception].               *)
(***************************************************************************)
EXTENDS Integers, Sequences, FiniteSets, TLC

VARIABLES
    files,             \* the data directory: path -> table stored in the file, or Missing
    pc,                \* position of the constructor: an init step, "ready" or "failed"
    exc,               \* the exception that ended the constructor, or "none"
    loopIndex,         \* position of `for clusterName in self._structClusterNames`
    clustersCatalog,   \* self._clustersCatalog
    photoCatalog,      \* self._photoCatalog
    redshiftCatalog,   \* self._redshiftCatalog
    galfitCatalog,     \* self._galfitCatalog
    matchedCatalog,    \* self._matchedCatalog
    matchedClusterDF,  \* the local matchedClusterDF of the loop body
    catalog,           \* self.catalog
    standardCriteria,  \* self.standardCriteria
    call,              \* the last public call made on the object
    ret                \* what that call returned or raised

vars == <<files, pc, exc, loopIndex, clustersCatalog, photoCatalog, redshiftCatalog,
          galfitCatalog, matchedCatalog, matchedClusterDF, catalog, standardCriteria,
          call, ret>>

(***************************************************************************)
(* Bounds of the model.                                                    *)
(***************************************************************************)
MaxRows == 2        \* rows of a table drawn as the input of a query
MaxCriteria == 2    \* criteria in a drawn list of criteria
MaxFileRows == 2    \* rows of the varied photometric block and matched file

(***************************************************************************)
(* Python strings and numbers.                                             *)
(***************************************************************************)
Abs(x) == IF x < 0 THEN -x ELSE x

Upper == <<"A","B","C","D","E","F","G","H","I","J","K","L","M",
           "N","O","P","Q","R","S","T","U","V","W","X","Y","Z">>

Lower == <<"a","b","c","d","e","f","g","h","i","j","k","l","m",
           "n","o","p","q","r","s","t","u","v","w","x","y","z">>

Digits == <<"0","1","2","3","4","5","6","7","8","9">>

Whitespace == {" ", "\t", "\n"}

\* str.lower()
lower(s) ==
    [i \in 1..Len(s) |->
        IF \E k \in 1..Len(Upper) : Upper[k] = s[i]
        THEN Lower[CHOOSE k \in 1..Len(Upper) : Upper[k] = s[i]]
        ELSE s[i]]

\* s[:n]
prefix(s, n) == SubSeq(s, 1, IF Len(s) < n THEN Len(s) ELSE n)

\* s[-n:]
suffix(s, n) == SubSeq(s, IF Len(s) < n THEN 1 ELSE Len(s) - n + 1, Len(s))

RECURSIVE lstrip(_)
lstrip(s) == IF s # <<>> /\ Head(s) \in Whitespace THEN lstrip(Tail(s)) ELSE s

RECURSIVE rstrip(_)
rstrip(s) ==
    IF s # <<>> /\ s[Len(s)] \in Whitespace THEN rstrip(SubSeq(s, 1, Len(s) - 1)) ELSE s

\* str.strip()
strip(s) == rstrip(lstrip(s))

\* str(n) of an integer
RECURSIVE str(_)
str(n) ==
    IF n < 0 THEN <<"-">> \o str(-n)
    ELSE IF n < 10 THEN <<Digits[n + 1]>>
    ELSE str(n \div 10) \o <<Digits[(n % 10) + 1]>>

IsDigits(s) == s # <<>> /\ \A i \in 1..Len(s) : \E d \in 1..Len(Digits) : Digits[d] = s[i]

RECURSIVE digitsValue(_)
digitsValue(s) ==
    IF s = <<>> THEN 0
    ELSE 10 * digitsValue(SubSeq(s, 1, Len(s) - 1))
         + (CHOOSE d \in 0..9 : Digits[d + 1] = s[Len(s)])

\* int(s): the value, or ValueError when s is not a decimal literal
int(s) ==
    IF IsDigits(s) THEN [ok |-> TRUE, val |-> digitsValue(s)]
    ELSE IF s # <<>> /\ Head(s) = "-" /\ IsDigits(Tail(s))
         THEN [ok |-> TRUE, val |-> 0 - digitsValue(Tail(s))]
    ELSE [ok |-> FALSE, exc |-> "ValueError"]

\* os.path.splitext(p)[1]: from the last dot of the last path component, when
\* that dot is not its leading character(s)
splitext(p) ==
    LET slashes == {i \in 1..Len(p) : p[i] = "/"}
        base    == IF slashes = {} THEN 1
                   ELSE (CHOOSE i \in slashes : \A j \in slashes : j <= i) + 1
        dots    == {i \in base..Len(p) : p[i] = "."}
        lastDot == CHOOSE i \in dots : \A j \in dots : j <= i
    IN  IF dots = {} THEN <<>>
        ELSE IF \A j \in base..lastDot : p[j] = "." THEN <<>>
        ELSE SubSeq(p, lastDot, Len(p))

(***************************************************************************)
(* DataFrames.                                                             *)
(***************************************************************************)
NaN == <<>>

\* pd.DataFrame()
NoFrame == [cols |-> <<>>, rows |-> <<>>]

Missing == [missing |-> TRUE]

Range(s) == {s[i] : i \in 1..Len(s)}

HasCol(frame, c) == c \in Range(frame.cols)

\* frame[mask]: the rows that satisfy Test, in their order, as a new frame
Select(frame, Test(_)) == [cols |-> frame.cols, rows |-> SelectSeq(frame.rows, Test)]

\* a row widened to the columns colSet, null where it has no value
Fill(row, colSet) == [c \in colSet |-> IF c \in DOMAIN row THEN row[c] ELSE NaN]

\* DataFrame.append(other): the rows of other after those of frame, over the
\* union of the columns
append(frame, other) ==
    LET cols   == frame.cols \o SelectSeq(other.cols, LAMBDA c : ~HasCol(frame, c))
        colSet == Range(cols)
    IN  [cols |-> cols,
         rows |-> [i \in 1..Len(frame.rows) |-> Fill(frame.rows[i], colSet)]
                  \o [i \in 1..Len(other.rows) |-> Fill(other.rows[i], colSet)]]

(***************************************************************************)
(* generateDF (lines 88-106).  fs is the data directory.                   *)
(***************************************************************************)
ReadFile(fs, filePath) ==
    IF filePath \in DOMAIN fs /\ fs[filePath] # Missing
    THEN [ok |-> TRUE, val |-> fs[filePath]]
    ELSE [ok |-> FALSE, exc |-> "FileNotFoundError"]

generateDF(fs, filePath) ==
    LET fileType == splitext(filePath)
    IN  IF fileType = <<".","f","i","t","s">> THEN ReadFile(fs, filePath)
        ELSE IF fileType = <<".","d","a","t">> THEN ReadFile(fs, filePath)
        ELSE [ok |-> TRUE, val |-> NoFrame]

(***************************************************************************)
(* merge (lines 108-120): pd.merge(frame1, frame2, how='left', on=col).    *)
(* The key order of frame1 is kept; a row of frame1 is followed through    *)
(* every row of frame2 with its key, in the order of frame2, or through    *)
(* nulls when there is none.  The non-key columns of the two frames are    *)
(* taken to have different names.                                          *)
(***************************************************************************)
RECURSIVE mergeRows(_, _, _, _)
mergeRows(rows1, rows2, columnName, colSet) ==
    IF rows1 = <<>> THEN <<>>
    ELSE LET l       == Head(rows1)
             matches == SelectSeq(rows2, LAMBDA r : r[columnName] = l[columnName])
             joined  == IF matches = <<>> THEN <<Fill(l, colSet)>>
                        ELSE [i \in 1..Len(matches) |->
                                [c \in colSet |-> IF c \in DOMAIN l THEN l[c]
                                                  ELSE matches[i][c]]]
         IN  joined \o mergeRows(Tail(rows1), rows2, columnName, colSet)

\* merge with how='inner': the rows of frame1 without a match are dropped
mergeInner(frame1, frame2, columnName) ==
    IF ~HasCol(frame1, columnName) \/ ~HasCol(frame2, columnName)
    THEN [ok |-> FALSE, exc |-> "KeyError"]
    ELSE LET cols    == frame1.cols \o SelectSeq(frame2.cols, LAMBDA c : c # columnName)
             matched == SelectSeq(frame1.rows,
                                  LAMBDA l : \E j \in 1..Len(frame2.rows) :
                                                 frame2.rows[j][columnName] = l[columnName])
         IN  [ok |-> TRUE,
              val |-> [cols |-> cols,
                       rows |-> mergeRows(matched, frame2.rows, columnName, Range(cols))]]

\* merge with how='outer': the rows of frame2 without a match are kept, after the
\* others
mergeOuter(frame1, frame2, columnName) ==
    IF ~HasCol(frame1, columnName) \/ ~HasCol(frame2, columnName)
    THEN [ok |-> FALSE, exc |-> "KeyError"]
    ELSE LET cols      == frame1.cols \o SelectSeq(frame2.cols, LAMBDA c : c # columnName)
             unmatched == SelectSeq(frame2.rows,
                                    LAMBDA r : \A i \in 1..Len(frame1.rows) :
                                                   frame1.rows[i][columnName] # r[columnName])
         IN  [ok |-> TRUE,
              val |-> [cols |-> cols,
                       rows |-> mergeRows(frame1.rows, frame2.rows, columnName, Range(cols))
                                \o [i \in 1..Len(unmatched) |->
                                      Fill(unmatched[i], Range(cols))]]]

merge(frame1, frame2, columnName) ==
    IF ~HasCol(frame1, columnName) \/ ~HasCol(frame2, columnName)
    THEN [ok |-> FALSE, exc |-> "KeyError"]
    ELSE LET cols == frame1.cols \o SelectSeq(frame2.cols, LAMBDA c : c # columnName)
         IN  [ok |-> TRUE,
              val |-> [cols |-> cols,
                       rows |-> mergeRows(frame1.rows, frame2.rows, columnName,
                                          Range(cols))]]

(***************************************************************************)
(* The queries (lines 122-184).  Like the methods they read the object's   *)
(* members, the state variables.                                           *)
(***************************************************************************)
\* getClusterZ (lines 122-131): .values[0] of an empty selection raises IndexError
getClusterZ(clusterName) ==
    IF ~HasCol(clustersCatalog, "cluster") THEN [ok |-> FALSE, exc |-> "KeyError"]
    ELSE LET targetCluster ==
                 Select(clustersCatalog, LAMBDA r : r["cluster"] = clusterName)
         IN  IF ~HasCol(targetCluster, "Redshift") THEN [ok |-> FALSE, exc |-> "KeyError"]
             ELSE IF targetCluster.rows = <<>> THEN [ok |-> FALSE, exc |-> "IndexError"]
             ELSE [ok |-> TRUE, val |-> targetCluster.rows[1]["Redshift"]]

\* getClusterGalaxies (lines 176-184)
getClusterGalaxies(clusterName) ==
    IF ~HasCol(catalog, "Cluster") THEN [ok |-> FALSE, exc |-> "KeyError"]
    ELSE [ok |-> TRUE, val |-> Select(catalog, LAMBDA r : r["Cluster"] = clusterName)]

\* line 145: np.abs(zspec - clusterZ) < 0.02*(1 + zspec), False on a null zspec
specZthreshold(row, clusterZ) ==
    /\ row["zspec"] # NaN
    /\ 100 * Abs(row["zspec"][1] - clusterZ) < 2 * (100 + row["zspec"][1])

\* line 148: np.abs(zphot - clusterZ) < 0.08*(1 + zphot), False on a null zphot
photZthreshold(row, clusterZ) ==
    /\ row["zphot"] # NaN
    /\ 100 * Abs(row["zphot"][1] - clusterZ) < 8 * (100 + row["zphot"][1])

\* line 151 as photZgalaxies[photZgalaxies['zspec'].isna()]: every row that has a
\* zspec is removed
removeWithZspec(photZgalaxies, specZgalaxies) ==
    Select(photZgalaxies, LAMBDA r : r["zspec"] = NaN)

\* line 151 left out: no row is removed
removeNothing(photZgalaxies, specZgalaxies) == photZgalaxies

\* line 151: photZgalaxies[~photZgalaxies['cPHOTID'].isin(specZgalaxies['cPHOTID'])]
removeSpecZ(photZgalaxies, specZgalaxies) ==
    Select(photZgalaxies,
           LAMBDA r : ~\E i \in 1..Len(specZgalaxies.rows) :
                          specZgalaxies.rows[i]["cPHOTID"] = r["cPHOTID"])

\* getMembers (lines 133-155)
getMembers(clusterName) ==
    LET clusterZ           == getClusterZ(clusterName)
        allClusterGalaxies == getClusterGalaxies(clusterName)
    IN  IF ~clusterZ.ok THEN clusterZ
        ELSE IF ~allClusterGalaxies.ok THEN allClusterGalaxies
        ELSE IF \E c \in {"zspec", "zphot", "cPHOTID"} : ~HasCol(allClusterGalaxies.val, c)
             THEN [ok |-> FALSE, exc |-> "KeyError"]
        ELSE LET specZgalaxies == Select(allClusterGalaxies.val,
                                         LAMBDA r : specZthreshold(r, clusterZ.val))
                 photZgalaxies == Select(allClusterGalaxies.val,
                                         LAMBDA r : photZthreshold(r, clusterZ.val))
             IN  [ok |-> TRUE,
                  val |-> append(specZgalaxies, removeSpecZ(photZgalaxies, specZgalaxies))]

\* A criterion string such as 'zphot > 45' is [col |-> "zphot", op |-> ">", val |-> 45].
\* A comparison with a null cell is False.
Satisfies(row, criteria) ==
    /\ row[criteria.col] # NaN
    /\ CASE criteria.op = ">" -> row[criteria.col][1] > criteria.val
         [] criteria.op = "<" -> row[criteria.col][1] < criteria.val

\* query that loses the first row it selects
queryDroppingFirst(frame, criteria) ==
    IF ~HasCol(frame, criteria.col) THEN [ok |-> FALSE, exc |-> "UndefinedVariableError"]
    ELSE LET selected == SelectSeq(frame.rows, LAMBDA r : Satisfies(r, criteria))
         IN  [ok |-> TRUE,
              val |-> [cols |-> frame.cols,
                       rows |-> IF selected = <<>> THEN <<>> ELSE Tail(selected)]]

\* frame.query(criteria): a new frame; a name that is no column of frame is undefined
query(frame, criteria) ==
    IF ~HasCol(frame, criteria.col) THEN [ok |-> FALSE, exc |-> "UndefinedVariableError"]
    ELSE [ok |-> TRUE, val |-> Select(frame, LAMBDA r : Satisfies(r, criteria))]

\* for criteria in criteriaList: frame = frame.query(criteria)
RECURSIVE queryEach(_, _)
queryEach(frame, criteriaList) ==
    IF criteriaList = <<>> THEN [ok |-> TRUE, val |-> frame]
    ELSE LET step == query(frame, Head(criteriaList))
         IN  IF step.ok THEN queryEach(step.val, Tail(criteriaList)) ELSE step

\* None as the additionalCriteria argument, and a list
None == [none |-> TRUE, items |-> <<>>]

List(items) == [none |-> FALSE, items |-> items]

\* reduceDF with `elif useStandards`: the standard criteria are applied only when
\* additionalCriteria is None
reduceDFElif(frame, additionalCriteria, useStandards) ==
    IF additionalCriteria # None THEN queryEach(frame, additionalCriteria.items)
    ELSE IF useStandards THEN queryEach(frame, standardCriteria)
    ELSE [ok |-> TRUE, val |-> frame]

\* reduceDF (lines 157-174)
reduceDF(frame, additionalCriteria, useStandards) ==
    LET adHoc == IF additionalCriteria # None
                 THEN queryEach(frame, additionalCriteria.items)
                 ELSE [ok |-> TRUE, val |-> frame]
    IN  IF ~adHoc.ok THEN adHoc
        ELSE IF useStandards THEN queryEach(adHoc.val, standardCriteria)
        ELSE adHoc

(***************************************************************************)
(* The constructor (lines 10-30) and init (lines 32-86).                   *)
(***************************************************************************)
\* line 20: self._path, the dataPath the object is constructed with
path == <<"/","d","/">>

\* lines 21-22: self._structClusterNames
structClusterNames ==
    << <<"S","p","A","R","C","S","0","2","1","9">>,
       <<"S","p","A","R","C","S","0","0","3","5">>,
       <<"S","p","A","R","C","S","1","6","3","4">>,
       <<"S","p","A","R","C","S","1","6","1","6">>,
       <<"S","P","T","0","5","4","6">>,
       <<"S","p","A","R","C","S","1","6","3","8">>,
       <<"S","P","T","0","2","0","5">>,
       <<"S","P","T","2","1","0","6">>,
       <<"S","p","A","R","C","S","1","0","5","1">>,
       <<"S","p","A","R","C","S","0","3","3","5">>,
       <<"S","p","A","R","C","S","1","0","3","4">> >>

\* line 37
clusterCatPath == path \o <<"D","R","1","/","C","A","T","S","/","C","l","u","s","t","e","r","s",".","f","i","t","s">>

\* line 44
photoCatPath == path \o <<"D","R","1","/","C","A","T","S","/","P","h","o","t","o",".","f","i","t","s">>

\* line 49
redshiftCatPath == path \o <<"D","R","1","/","C","A","T","S","/","R","e","d","s","h","i","f","t","_","c","a","t","a","l","o","g","u","e",".","f","i","t","s">>

\* line 55
galfitCatPath == path \o <<"S","T","R","U","C","T","U","R","A","L","_","P","A","R","A","_","v","1",".","1","_","C","A","T","O","N","L","Y","/","G","A","L","F","I","T","_","O","R","G","_","C","A","T","S","/">>

\* line 56
matchedCatPath == path \o <<"S","T","R","U","C","T","U","R","A","L","_","P","A","R","A","_","v","1",".","1","_","C","A","T","O","N","L","Y","/","S","T","R","U","C","T","C","A","T","_","M","A","T","C","H","E","D","/">>

\* lines 59 and 62-63
galfitClusterFilename(clusterName) ==
    IF prefix(clusterName, 6) = <<"S","p","A","R","C","S">>
    THEN <<"g","a","l","_","s","p","j">> \o suffix(clusterName, 4) \o <<"_","o","r","g","c","a","t",".","f","i","t","s">>
    ELSE <<"g","a","l","_">> \o lower(clusterName) \o <<"_","o","r","g","c","a","t",".","f","i","t","s">>

\* lines 60 and 62-64
matchedClusterFilename(clusterName) ==
    IF prefix(clusterName, 6) = <<"S","p","A","R","C","S">>
    THEN <<"s","t","r","u","c","t","c","a","t","_","p","h","o","t","m","a","t","c","h","_","s","p","j">> \o suffix(clusterName, 4) \o <<".","d","a","t">>
    ELSE <<"s","t","r","u","c","t","c","a","t","_","p","h","o","t","m","a","t","c","h","_">> \o lower(clusterName) \o <<".","d","a","t">>

\* line 41 left out: the names keep their blanks
keepClusterColumn(frame) == frame

\* line 41: frame['cluster'] = frame['cluster'].str.strip()
stripClusterColumn(frame) ==
    [cols |-> frame.cols,
     rows |-> [i \in 1..Len(frame.rows) |->
                 [frame.rows[i] EXCEPT !["cluster"] = strip(@)]]]

\* lines 75 and 77 with a default: no row tagged clusterName gives prefix 0
idPrefixOrZero(clusterName) ==
    LET tagged == Select(photoCatalog, LAMBDA r : r["Cluster"] = clusterName)
    IN  IF tagged.rows = <<>> THEN [ok |-> TRUE, val |-> 0]
        ELSE LET tempCPHOTID == tagged.rows[1]["cPHOTID"]
                 leading     == int(prefix(str(tempCPHOTID), 3))
             IN  IF leading.ok THEN [ok |-> TRUE, val |-> leading.val * 1000000]
                 ELSE leading

\* lines 75 and 77 with .iloc[-1]: the prefix is taken from the last row tagged
\* clusterName
idPrefixOfLast(clusterName) ==
    LET tagged == Select(photoCatalog, LAMBDA r : r["Cluster"] = clusterName)
    IN  IF tagged.rows = <<>> THEN [ok |-> FALSE, exc |-> "IndexError"]
        ELSE LET tempCPHOTID == tagged.rows[Len(tagged.rows)]["cPHOTID"]
                 leading     == int(prefix(str(tempCPHOTID), 3))
             IN  IF leading.ok THEN [ok |-> TRUE, val |-> leading.val * 1000000]
                 ELSE leading

\* lines 75 and 77: the ID prefix that the first row of the photometric catalog
\* tagged clusterName gives; IndexError when no row is tagged with it
idPrefix(clusterName) ==
    LET tagged == Select(photoCatalog, LAMBDA r : r["Cluster"] = clusterName)
    IN  IF tagged.rows = <<>> THEN [ok |-> FALSE, exc |-> "IndexError"]
        ELSE LET tempCPHOTID == tagged.rows[1]["cPHOTID"]
                 leading     == int(prefix(str(tempCPHOTID), 3))
             IN  IF leading.ok THEN [ok |-> TRUE, val |-> leading.val * 1000000]
                 ELSE leading

\* line 79: frame.rename(columns = {old: new}); no column old is no change
rename(frame, old, new) ==
    [cols |-> [i \in 1..Len(frame.cols) |->
                 IF frame.cols[i] = old THEN new ELSE frame.cols[i]],
     rows |-> [i \in 1..Len(frame.rows) |->
                 IF old \in DOMAIN frame.rows[i]
                 THEN [c \in (DOMAIN frame.rows[i] \ {old}) \cup {new} |->
                          IF c = new THEN frame.rows[i][old] ELSE frame.rows[i][c]]
                 ELSE frame.rows[i]]]

\* line 80 as frame.loc[0, col] += k: only the first row is moved
addToFirstRow(frame, col, k) ==
    [cols |-> frame.cols,
     rows |-> [i \in 1..Len(frame.rows) |->
                 IF i = 1 THEN [frame.rows[i] EXCEPT ![col] = @ + k] ELSE frame.rows[i]]]

\* line 80: frame.loc[:, col] += k
addToColumn(frame, col, k) ==
    [cols |-> frame.cols,
     rows |-> [i \in 1..Len(frame.rows) |-> [frame.rows[i] EXCEPT ![col] = @ + k]]]

\* lines 79-80: the matched table of a cluster in the canonical ID space
remap(frame, prefixOfCluster) ==
    addToColumn(rename(frame, "PHOTCATID", "cPHOTID"), "cPHOTID", prefixOfCluster)

clusterName == structClusterNames[loopIndex]

\* line 29 inside try/except: the exception is kept and the object is handed out
RaiseSwallowed(e) ==
    /\ pc' = "ready"
    /\ exc' = e

\* an exception leaves the constructor: no object is built
Raise(e) ==
    /\ pc' = "failed"
    /\ exc' = e

\* lines 37-41
LoadClusters ==
    /\ pc = "LoadClusters"
    /\ LET df == generateDF(files, clusterCatPath)
       IN  IF ~df.ok
           THEN Raise(df.exc) /\ UNCHANGED clustersCatalog
           ELSE IF ~HasCol(df.val, "cluster")
           THEN /\ Raise("KeyError")
                /\ clustersCatalog' = df.val
           ELSE /\ clustersCatalog' = stripClusterColumn(df.val)
                /\ pc' = "LoadPhoto"
                /\ UNCHANGED exc
    /\ UNCHANGED <<files, loopIndex, photoCatalog, redshiftCatalog, galfitCatalog,
                   matchedCatalog, matchedClusterDF, catalog, standardCriteria, call, ret>>

\* lines 44-46
LoadPhoto ==
    /\ pc = "LoadPhoto"
    /\ LET df == generateDF(files, photoCatPath)
       IN  IF ~df.ok
           THEN Raise(df.exc) /\ UNCHANGED photoCatalog
           ELSE /\ photoCatalog' = df.val
                /\ pc' = "LoadRedshift"
                /\ UNCHANGED exc
    /\ UNCHANGED <<files, loopIndex, clustersCatalog, redshiftCatalog, galfitCatalog,
                   matchedCatalog, matchedClusterDF, catalog, standardCriteria, call, ret>>

\* lines 49-57
LoadRedshift ==
    /\ pc = "LoadRedshift"
    /\ LET df == generateDF(files, redshiftCatPath)
       IN  IF ~df.ok
           THEN Raise(df.exc) /\ UNCHANGED <<redshiftCatalog, loopIndex>>
           ELSE /\ redshiftCatalog' = df.val
                /\ loopIndex' = 1
                /\ pc' = IF structClusterNames = <<>> THEN "Merge" ELSE "LoadGalfit"
                /\ UNCHANGED exc
    /\ UNCHANGED <<files, clustersCatalog, photoCatalog, galfitCatalog,
                   matchedCatalog, matchedClusterDF, catalog, standardCriteria, call, ret>>

\* lines 59-69
LoadGalfit ==
    /\ pc = "LoadGalfit"
    /\ LET galfitClusterDF ==
               generateDF(files, galfitCatPath \o galfitClusterFilename(clusterName))
       IN  IF ~galfitClusterDF.ok
           THEN Raise(galfitClusterDF.exc) /\ UNCHANGED galfitCatalog
           ELSE /\ galfitCatalog' = append(galfitCatalog, galfitClusterDF.val)
                /\ pc' = "LoadMatched"
                /\ UNCHANGED exc
    /\ UNCHANGED <<files, loopIndex, clustersCatalog, photoCatalog, redshiftCatalog,
                   matchedCatalog, matchedClusterDF, catalog, standardCriteria, call, ret>>

\* lines 71-72
LoadMatched ==
    /\ pc = "LoadMatched"
    /\ LET df == generateDF(files, matchedCatPath \o matchedClusterFilename(clusterName))
       IN  IF ~df.ok
           THEN Raise(df.exc) /\ UNCHANGED matchedClusterDF
           ELSE /\ matchedClusterDF' = df.val
                /\ pc' = "Remap"
                /\ UNCHANGED exc
    /\ UNCHANGED <<files, loopIndex, clustersCatalog, photoCatalog, redshiftCatalog,
                   galfitCatalog, matchedCatalog, catalog, standardCriteria, call, ret>>

\* lines 73-80
Remap ==
    /\ pc = "Remap"
    /\ LET prefixOfCluster == idPrefix(clusterName)
       IN  IF ~prefixOfCluster.ok
           THEN Raise(prefixOfCluster.exc) /\ UNCHANGED matchedClusterDF
           ELSE IF ~HasCol(rename(matchedClusterDF, "PHOTCATID", "cPHOTID"), "cPHOTID")
           THEN /\ Raise("KeyError")
                /\ UNCHANGED matchedClusterDF
           ELSE /\ matchedClusterDF' = remap(matchedClusterDF, prefixOfCluster.val)
                /\ pc' = "AppendMatched"
                /\ UNCHANGED exc
    /\ UNCHANGED <<files, loopIndex, clustersCatalog, photoCatalog, redshiftCatalog,
                   galfitCatalog, matchedCatalog, catalog, standardCriteria, call, ret>>

\* lines 81-82 in a loop that ends one cluster early
AppendMatchedStoppingEarly ==
    /\ pc = "AppendMatched"
    /\ matchedCatalog' = append(matchedCatalog, matchedClusterDF)
    /\ IF loopIndex < Len(structClusterNames) - 1
       THEN /\ loopIndex' = loopIndex + 1
            /\ pc' = "LoadGalfit"
       ELSE /\ pc' = "Merge"
            /\ UNCHANGED loopIndex
    /\ UNCHANGED <<files, exc, clustersCatalog, photoCatalog, redshiftCatalog,
                   galfitCatalog, matchedClusterDF, catalog, standardCriteria, call, ret>>

\* lines 81-82, and the loop's next iteration or its end (line 57)
AppendMatched ==
    /\ pc = "AppendMatched"
    /\ matchedCatalog' = append(matchedCatalog, matchedClusterDF)
    /\ IF loopIndex < Len(structClusterNames)
       THEN /\ loopIndex' = loopIndex + 1
            /\ pc' = "LoadGalfit"
       ELSE /\ pc' = "Merge"
            /\ UNCHANGED loopIndex
    /\ UNCHANGED <<files, exc, clustersCatalog, photoCatalog, redshiftCatalog,
                   galfitCatalog, matchedClusterDF, catalog, standardCriteria, call, ret>>

\* lines 84-85, after which the constructor returns (line 29)
InitMerge ==
    /\ pc = "Merge"
    /\ LET merged == merge(photoCatalog, matchedCatalog, "cPHOTID")
       IN  IF ~merged.ok
           THEN Raise(merged.exc) /\ UNCHANGED catalog
           ELSE /\ catalog' = merged.val
                /\ pc' = "ready"
                /\ UNCHANGED exc
    /\ UNCHANGED <<files, loopIndex, clustersCatalog, photoCatalog, redshiftCatalog,
                   galfitCatalog, matchedCatalog, matchedClusterDF, standardCriteria,
                   call, ret>>

(***************************************************************************)
(* The data directory the constructor reads: the files of the GOGREEN DR1  *)
(* release under their names, with small tables in them.                   *)
(***************************************************************************)
ClustersFile == <<"/","d","/","D","R","1","/","C","A","T","S","/","C","l","u","s","t","e","r","s",".","f","i","t","s">>

PhotoFile == <<"/","d","/","D","R","1","/","C","A","T","S","/","P","h","o","t","o",".","f","i","t","s">>

RedshiftFile == <<"/","d","/","D","R","1","/","C","A","T","S","/","R","e","d","s","h","i","f","t","_","c","a","t","a","l","o","g","u","e",".","f","i","t","s">>

\* GALFIT_ORG_CATS/gal_<token>_orgcat.fits, one per structural cluster
GalfitFiles ==
    << <<"/","d","/","S","T","R","U","C","T","U","R","A","L","_","P","A","R","A","_","v","1",".","1","_","C","A","T","O","N","L","Y","/","G","A","L","F","I","T","_","O","R","G","_","C","A","T","S","/","g","a","l","_","s","p","j","0","2","1","9","_","o","r","g","c","a","t",".","f","i","t","s">>,
       <<"/","d","/","S","T","R","U","C","T","U","R","A","L","_","P","A","R","A","_","v","1",".","1","_","C","A","T","O","N","L","Y","/","G","A","L","F","I","T","_","O","R","G","_","C","A","T","S","/","g","a","l","_","s","p","j","0","0","3","5","_","o","r","g","c","a","t",".","f","i","t","s">>,
       <<"/","d","/","S","T","R","U","C","T","U","R","A","L","_","P","A","R","A","_","v","1",".","1","_","C","A","T","O","N","L","Y","/","G","A","L","F","I","T","_","O","R","G","_","C","A","T","S","/","g","a","l","_","s","p","j","1","6","3","4","_","o","r","g","c","a","t",".","f","i","t","s">>,
       <<"/","d","/","S","T","R","U","C","T","U","R","A","L","_","P","A","R","A","_","v","1",".","1","_","C","A","T","O","N","L","Y","/","G","A","L","F","I","T","_","O","R","G","_","C","A","T","S","/","g","a","l","_","s","p","j","1","6","1","6","_","o","r","g","c","a","t",".","f","i","t","s">>,
       <<"/","d","/","S","T","R","U","C","T","U","R","A","L","_","P","A","R","A","_","v","1",".","1","_","C","A","T","O","N","L","Y","/","G","A","L","F","I","T","_","O","R","G","_","C","A","T","S","/","g","a","l","_","s","p","t","0","5","4","6","_","o","r","g","c","a","t",".","f","i","t","s">>,
       <<"/","d","/","S","T","R","U","C","T","U","R","A","L","_","P","A","R","A","_","v","1",".","1","_","C","A","T","O","N","L","Y","/","G","A","L","F","I","T","_","O","R","G","_","C","A","T","S","/","g","a","l","_","s","p","j","1","6","3","8","_","o","r","g","c","a","t",".","f","i","t","s">>,
       <<"/","d","/","S","T","R","U","C","T","U","R","A","L","_","P","A","R","A","_","v","1",".","1","_","C","A","T","O","N","L","Y","/","G","A","L","F","I","T","_","O","R","G","_","C","A","T","S","/","g","a","l","_","s","p","t","0","2","0","5","_","o","r","g","c","a","t",".","f","i","t","s">>,
       <<"/","d","/","S","T","R","U","C","T","U","R","A","L","_","P","A","R","A","_","v","1",".","1","_","C","A","T","O","N","L","Y","/","G","A","L","F","I","T","_","O","R","G","_","C","A","T","S","/","g","a","l","_","s","p","t","2","1","0","6","_","o","r","g","c","a","t",".","f","i","t","s">>,
       <<"/","d","/","S","T","R","U","C","T","U","R","A","L","_","P","A","R","A","_","v","1",".","1","_","C","A","T","O","N","L","Y","/","G","A","L","F","I","T","_","O","R","G","_","C","A","T","S","/","g","a","l","_","s","p","j","1","0","5","1","_","o","r","g","c","a","t",".","f","i","t","s">>,
       <<"/","d","/","S","T","R","U","C","T","U","R","A","L","_","P","A","R","A","_","v","1",".","1","_","C","A","T","O","N","L","Y","/","G","A","L","F","I","T","_","O","R","G","_","C","A","T","S","/","g","a","l","_","s","p","j","0","3","3","5","_","o","r","g","c","a","t",".","f","i","t","s">>,
       <<"/","d","/","S","T","R","U","C","T","U","R","A","L","_","P","A","R","A","_","v","1",".","1","_","C","A","T","O","N","L","Y","/","G","A","L","F","I","T","_","O","R","G","_","C","A","T","S","/","g","a","l","_","s","p","j","1","0","3","4","_","o","r","g","c","a","t",".","f","i","t","s">> >>

\* STRUCTCAT_MATCHED/structcat_photmatch_<token>.dat, one per structural cluster
MatchedFiles ==
    << <<"/","d","/","S","T","R","U","C","T","U","R","A","L","_","P","A","R","A","_","v","1",".","1","_","C","A","T","O","N","L","Y","/","S","T","R","U","C","T","C","A","T","_","M","A","T","C","H","E","D","/","s","t","r","u","c","t","c","a","t","_","p","h","o","t","m","a","t","c","h","_","s","p","j","0","2","1","9",".","d","a","t">>,
       <<"/","d","/","S","T","R","U","C","T","U","R","A","L","_","P","A","R","A","_","v","1",".","1","_","C","A","T","O","N","L","Y","/","S","T","R","U","C","T","C","A","T","_","M","A","T","C","H","E","D","/","s","t","r","u","c","t","c","a","t","_","p","h","o","t","m","a","t","c","h","_","s","p","j","0","0","3","5",".","d","a","t">>,
       <<"/","d","/","S","T","R","U","C","T","U","R","A","L","_","P","A","R","A","_","v","1",".","1","_","C","A","T","O","N","L","Y","/","S","T","R","U","C","T","C","A","T","_","M","A","T","C","H","E","D","/","s","t","r","u","c","t","c","a","t","_","p","h","o","t","m","a","t","c","h","_","s","p","j","1","6","3","4",".","d","a","t">>,
       <<"/","d","/","S","T","R","U","C","T","U","R","A","L","_","P","A","R","A","_","v","1",".","1","_","C","A","T","O","N","L","Y","/","S","T","R","U","C","T","C","A","T","_","M","A","T","C","H","E","D","/","s","t","r","u","c","t","c","a","t","_","p","h","o","t","m","a","t","c","h","_","s","p","j","1","6","1","6",".","d","a","t">>,
       <<"/","d","/","S","T","R","U","C","T","U","R","A","L","_","P","A","R","A","_","v","1",".","1","_","C","A","T","O","N","L","Y","/","S","T","R","U","C","T","C","A","T","_","M","A","T","C","H","E","D","/","s","t","r","u","c","t","c","a","t","_","p","h","o","t","m","a","t","c","h","_","s","p","t","0","5","4","6",".","d","a","t">>,
       <<"/","d","/","S","T","R","U","C","T","U","R","A","L","_","P","A","R","A","_","v","1",".","1","_","C","A","T","O","N","L","Y","/","S","T","R","U","C","T","C","A","T","_","M","A","T","C","H","E","D","/","s","t","r","u","c","t","c","a","t","_","p","h","o","t","m","a","t","c","h","_","s","p","j","1","6","3","8",".","d","a","t">>,
       <<"/","d","/","S","T","R","U","C","T","U","R","A","L","_","P","A","R","A","_","v","1",".","1","_","C","A","T","O","N","L","Y","/","S","T","R","U","C","T","C","A","T","_","M","A","T","C","H","E","D","/","s","t","r","u","c","t","c","a","t","_","p","h","o","t","m","a","t","c","h","_","s","p","t","0","2","0","5",".","d","a","t">>,
       <<"/","d","/","S","T","R","U","C","T","U","R","A","L","_","P","A","R","A","_","v","1",".","1","_","C","A","T","O","N","L","Y","/","S","T","R","U","C","T","C","A","T","_","M","A","T","C","H","E","D","/","s","t","r","u","c","t","c","a","t","_","p","h","o","t","m","a","t","c","h","_","s","p","t","2","1","0","6",".","d","a","t">>,
       <<"/","d","/","S","T","R","U","C","T","U","R","A","L","_","P","A","R","A","_","v","1",".","1","_","C","A","T","O","N","L","Y","/","S","T","R","U","C","T","C","A","T","_","M","A","T","C","H","E","D","/","s","t","r","u","c","t","c","a","t","_","p","h","o","t","m","a","t","c","h","_","s","p","j","1","0","5","1",".","d","a","t">>,
       <<"/","d","/","S","T","R","U","C","T","U","R","A","L","_","P","A","R","A","_","v","1",".","1","_","C","A","T","O","N","L","Y","/","S","T","R","U","C","T","C","A","T","_","M","A","T","C","H","E","D","/","s","t","r","u","c","t","c","a","t","_","p","h","o","t","m","a","t","c","h","_","s","p","j","0","3","3","5",".","d","a","t">>,
       <<"/","d","/","S","T","R","U","C","T","U","R","A","L","_","P","A","R","A","_","v","1",".","1","_","C","A","T","O","N","L","Y","/","S","T","R","U","C","T","C","A","T","_","M","A","T","C","H","E","D","/","s","t","r","u","c","t","c","a","t","_","p","h","o","t","m","a","t","c","h","_","s","p","j","1","0","3","4",".","d","a","t">> >>

Clusters == 1..Len(structClusterNames)

AllFiles == {ClustersFile, PhotoFile, RedshiftFile}
            \cup Range(GalfitFiles) \cup Range(MatchedFiles)

\* the cluster ID that leads the cPHOTIDs of cluster i, and its redshift
ClusterID(i) == 99 + i

ClusterRedshift(i) == 100 + i

RECURSIVE Flatten(_)
Flatten(blocks) == IF blocks = <<>> THEN <<>> ELSE Head(blocks) \o Flatten(Tail(blocks))

\* the sequences without repetition of at most n elements of S
RECURSIVE Arrangements(_, _)
Arrangements(S, n) ==
    IF n = 0 THEN {<<>>}
    ELSE {<<>>} \cup UNION {{<<x>> \o t : t \in Arrangements(S \ {x}, n - 1)} : x \in S}

\* the sequences of at most n elements of S
RECURSIVE SeqsUpTo(_, _)
SeqsUpTo(S, n) ==
    IF n = 0 THEN {<<>>}
    ELSE {<<>>} \cup {<<x>> \o t : x \in S, t \in SeqsUpTo(S, n - 1)}

\* the entry of cluster i in Clusters.fits: names come padded with blanks
ClusterEntry(i) ==
    << [cluster |-> structClusterNames[i] \o <<" ", " ">>, Redshift |-> ClusterRedshift(i)] >>

\* other entries a clusters catalog can hold for cluster i: none, blanks on both
\* sides, two rows for the name, a blank inside the name
ClusterEntryVariants(i) ==
    { <<>>,
      << [cluster |-> <<" ">> \o structClusterNames[i] \o <<"\t">>,
          Redshift |-> ClusterRedshift(i)] >>,
      << [cluster |-> structClusterNames[i], Redshift |-> ClusterRedshift(i)],
         [cluster |-> structClusterNames[i] \o <<" ">>, Redshift |-> ClusterRedshift(i) + 9] >>,
      << [cluster |-> prefix(structClusterNames[i], 3) \o <<" ">>
                      \o suffix(structClusterNames[i], Len(structClusterNames[i]) - 3),
          Redshift |-> ClusterRedshift(i)] >> }

\* the rows of cluster i in Photo.fits
PhotoBlock(i) ==
    << [cPHOTID |-> ClusterID(i) * 1000000 + 42, Cluster |-> structClusterNames[i],
        zspec |-> NaN, zphot |-> <<ClusterRedshift(i)>>] >>

\* rows the photometric catalog can hold for cluster i: a photometric member, a
\* spectroscopic member, and a row whose cPHOTID has fewer than three digits
PhotoRows(i) ==
    { [cPHOTID |-> ClusterID(i) * 1000000 + 42, Cluster |-> structClusterNames[i],
       zspec |-> NaN, zphot |-> <<ClusterRedshift(i) + 5>>],
      [cPHOTID |-> ClusterID(i) * 1000000 + 7, Cluster |-> structClusterNames[i],
       zspec |-> <<ClusterRedshift(i) - 1>>, zphot |-> <<ClusterRedshift(i) + 60>>],
      [cPHOTID |-> 42, Cluster |-> structClusterNames[i],
       zspec |-> <<ClusterRedshift(i) + 40>>, zphot |-> <<ClusterRedshift(i)>>] }

\* the rows of structcat_photmatch_<token>.dat of cluster i, from their local IDs
MatchedRows(ids) == [k \in 1..Len(ids) |-> [PHOTCATID |-> ids[k], re |-> <<k>>]]

LocalIDs == {7, 42}

\* the cluster whose files vary: a SpARCS one and an SPT one
VariedClusters == {1, 5}

PhotoCols == <<"cPHOTID", "Cluster", "zspec", "zphot">>

\* the data directory in which the files of cluster f hold clusterEntry, photoBlock
\* and the local IDs matchedIDs, and the file `absent` does not exist
DataDirectory(f, clusterEntry, photoBlock, matchedIDs, absent) ==
    [p \in AllFiles |->
        IF p = absent THEN Missing
        ELSE IF p = ClustersFile
        THEN [cols |-> <<"cluster", "Redshift">>,
              rows |-> Flatten([i \in Clusters |->
                                  IF i = f THEN clusterEntry ELSE ClusterEntry(i)])]
        ELSE IF p = PhotoFile
        THEN [cols |-> PhotoCols,
              rows |-> Flatten([i \in Clusters |->
                                  IF i = f THEN photoBlock ELSE PhotoBlock(i)])]
        ELSE IF p = RedshiftFile
        THEN [cols |-> <<"SPECID", "Redshift">>,
              rows |-> << [SPECID |-> 1, Redshift |-> <<ClusterRedshift(1)>>] >>]
        ELSE IF p \in Range(GalfitFiles)
        THEN [cols |-> <<"NUMBER", "mag">>,
              rows |-> << [NUMBER |-> 1,
                           mag |-> <<CHOOSE i \in Clusters : GalfitFiles[i] = p>>] >>]
        ELSE [cols |-> <<"PHOTCATID", "re">>,
              rows |-> IF MatchedFiles[f] = p THEN MatchedRows(matchedIDs)
                       ELSE MatchedRows(<<42>>)]]

NoFile == <<>>

Directories ==
    UNION {{DataDirectory(f, ClusterEntry(f), b, ids, NoFile) :
              b \in Arrangements(PhotoRows(f), MaxFileRows),
              ids \in Arrangements(LocalIDs, MaxFileRows)} : f \in VariedClusters}
    \cup
    UNION {{DataDirectory(f, e, PhotoBlock(f), <<42>>, NoFile) :
              e \in ClusterEntryVariants(f)} : f \in VariedClusters}
    \cup
    {DataDirectory(1, ClusterEntry(1), PhotoBlock(1), <<42>>, absent) : absent \in AllFiles}

NoCall == [op |-> "none", args |-> <<>>]

NoReturn == [ok |-> FALSE, exc |-> "none"]

\* lines 17-29: the members as the constructor sets them, before init() runs
Init ==
    /\ files \in Directories
    /\ pc = "LoadClusters"
    /\ exc = "none"
    /\ loopIndex = 0
    /\ clustersCatalog = NoFrame
    /\ photoCatalog = NoFrame
    /\ redshiftCatalog = NoFrame
    /\ galfitCatalog = NoFrame
    /\ matchedCatalog = NoFrame
    /\ matchedClusterDF = NoFrame
    /\ catalog = NoFrame
    /\ standardCriteria = <<>>
    /\ call = NoCall
    /\ ret = NoReturn

(***************************************************************************)
(* The public calls made on the constructed object.                        *)
(***************************************************************************)
\* what init() built, and no query may change
store == <<files, pc, exc, loopIndex, clustersCatalog, photoCatalog, redshiftCatalog,
           galfitCatalog, matchedCatalog, matchedClusterDF, catalog>>

\* names asked for: two structural clusters, a name with a blank, an unknown name
QueryNames == {structClusterNames[1], structClusterNames[5],
               <<" ">> \o structClusterNames[1], <<"X">>}

\* criteria strings: 'zphot > 103', 'zspec < 120', and 'mass > 1' on a column no
\* catalog has
Criteria == {[col |-> "zphot", op |-> ">", val |-> 103],
             [col |-> "zspec", op |-> "<", val |-> 120],
             [col |-> "mass", op |-> ">", val |-> 1]}

\* paths generateDF is called with: a catalog, a file that does not exist, and
\* paths whose extension is neither .fits nor .dat
CallPaths == {ClustersFile, MatchedFiles[1],
              path \o <<"n","o","f","i","l","e",".","d","a","t">>, path \o <<"t","a","b","l","e",".","c","s","v">>, path \o <<"R","E","A","D","M","E">>}

GetClusterZ ==
    /\ pc = "ready"
    /\ \E name \in QueryNames :
          /\ call' = [op |-> "getClusterZ", args |-> <<name>>]
          /\ ret' = getClusterZ(name)
    /\ UNCHANGED <<store, standardCriteria>>

\* getClusterGalaxies that keeps its selection in self.catalog
GetClusterGalaxiesNarrowing ==
    /\ pc = "ready"
    /\ \E name \in QueryNames :
          /\ call' = [op |-> "getClusterGalaxies", args |-> <<name>>]
          /\ ret' = getClusterGalaxies(name)
          /\ catalog' = IF getClusterGalaxies(name).ok THEN getClusterGalaxies(name).val
                        ELSE catalog
    /\ UNCHANGED <<files, pc, exc, loopIndex, clustersCatalog, photoCatalog,
                   redshiftCatalog, galfitCatalog, matchedCatalog, matchedClusterDF,
                   standardCriteria>>

GetClusterGalaxies ==
    /\ pc = "ready"
    /\ \E name \in QueryNames :
          /\ call' = [op |-> "getClusterGalaxies", args |-> <<name>>]
          /\ ret' = getClusterGalaxies(name)
    /\ UNCHANGED <<store, standardCriteria>>

GetMembers ==
    /\ pc = "ready"
    /\ \E name \in QueryNames :
          /\ call' = [op |-> "getMembers", args |-> <<name>>]
          /\ ret' = getMembers(name)
    /\ UNCHANGED <<store, standardCriteria>>

GenerateDF ==
    /\ pc = "ready"
    /\ \E filePath \in CallPaths :
          /\ call' = [op |-> "generateDF", args |-> <<filePath>>]
          /\ ret' = generateDF(files, filePath)
    /\ UNCHANGED <<store, standardCriteria>>

ReduceDFCall(frame, additionalCriteria, useStandards) ==
    /\ pc = "ready"
    /\ call' = [op |-> "reduceDF", args |-> <<frame, additionalCriteria, useStandards>>]
    /\ ret' = reduceDF(frame, additionalCriteria, useStandards)
    /\ UNCHANGED <<store, standardCriteria>>

\* reduceDF on the catalog, or as plot calls it (lines 241-246): on the table that
\* getClusterGalaxies or getMembers just returned
ReduceDF ==
    \E frame \in {catalog} \cup
                 (IF call.op \in {"getClusterGalaxies", "getMembers"} /\ ret.ok
                  THEN {ret.val} ELSE {}),
       additionalCriteria \in {None, List(<<>>),
                               List(<<[col |-> "zphot", op |-> ">", val |-> 103]>>)},
       useStandards \in BOOLEAN :
          ReduceDFCall(frame, additionalCriteria, useStandards)

\* line 18: standardCriteria is a public member, which the user of the object fills
SetStandardCriteria ==
    /\ pc = "ready"
    /\ \E criteriaList \in {<<>>, <<[col |-> "zspec", op |-> "<", val |-> 120]>>} :
          /\ standardCriteria' = criteriaList
          /\ call' = [op |-> "standardCriteria", args |-> <<criteriaList>>]
          /\ ret' = NoReturn
    /\ UNCHANGED store

Next ==
    \/ LoadClusters
    \/ LoadPhoto
    \/ LoadRedshift
    \/ LoadGalfit
    \/ LoadMatched
    \/ Remap
    \/ AppendMatched
    \/ InitMerge
    \/ GetClusterZ
    \/ GetClusterGalaxies
    \/ GetMembers
    \/ GenerateDF
    \/ ReduceDF
    \/ SetStandardCriteria

Spec == Init /\ [][Next]_vars

(***************************************************************************)
(* The queries on drawn catalogs: the object as a constructor can leave    *)
(* it, with small tables drawn for its members.                            *)
(***************************************************************************)
CatalogCols == PhotoCols \o <<"re">>

\* (zspec, zphot) of a row.  Against the redshift 101 of the first cluster: a
\* photometric member without zspec, a member by both tests, a row whose zspec
\* fails while its zphot passes, and a row that passes neither
DrawnRedshifts == {<<NaN, <<106>>>>, <<<<100>>, <<106>>>>, <<<<141>>, <<101>>>>,
                   <<NaN, <<161>>>>}

DrawnCatalogRows(ids, clusters) ==
    {[cPHOTID |-> id, Cluster |-> structClusterNames[i], zspec |-> z[1], zphot |-> z[2],
      re |-> NaN] : id \in ids, i \in clusters, z \in DrawnRedshifts}

Ready ==
    /\ files = <<>>
    /\ pc = "ready"
    /\ exc = "none"
    /\ loopIndex = Len(structClusterNames)
    /\ redshiftCatalog = NoFrame
    /\ galfitCatalog = NoFrame
    /\ matchedClusterDF = NoFrame
    /\ call = NoCall
    /\ ret = NoReturn

InitMembers ==
    /\ Ready
    /\ clustersCatalog \in
          {[cols |-> <<"cluster", "Redshift">>, rows |-> rows] :
              rows \in {stripClusterColumn([cols |-> <<>>, rows |-> Flatten(
                           [i \in 1..Len(cs) |-> ClusterEntry(cs[i])])]).rows :
                        cs \in {<<1, 5>>, <<1>>}}}
    /\ catalog \in {[cols |-> CatalogCols, rows |-> rows] :
                      rows \in SeqsUpTo(DrawnCatalogRows({1, 2}, {1, 5}), MaxRows)}
    /\ photoCatalog = NoFrame
    /\ matchedCatalog = NoFrame
    /\ standardCriteria = <<>>

NextMembers ==
    \/ GetClusterZ
    \/ GetClusterGalaxies
    \/ GetMembers

SpecMembers == InitMembers /\ [][NextMembers]_vars

InitReduce ==
    /\ Ready
    /\ clustersCatalog = [cols |-> <<"cluster", "Redshift">>,
                          rows |-> stripClusterColumn([cols |-> <<>>,
                                                       rows |-> ClusterEntry(1)]).rows]
    /\ catalog \in {[cols |-> CatalogCols, rows |-> rows] :
                      rows \in SeqsUpTo(DrawnCatalogRows({1}, {1}), MaxRows)}
    /\ photoCatalog = NoFrame
    /\ matchedCatalog = NoFrame
    /\ standardCriteria \in Arrangements(Criteria, MaxCriteria)

\* reduceDF on the catalog with a drawn list of criteria, or None
ReduceDrawn ==
    \E additionalCriteria \in {None} \cup
                              {List(l) : l \in Arrangements(Criteria, MaxCriteria)},
       useStandards \in BOOLEAN :
          ReduceDFCall(catalog, additionalCriteria, useStandards)

NextReduce == ReduceDrawn

SpecReduce == InitReduce /\ [][NextReduce]_vars

\* the constructor at line 85, with drawn photometric and matched catalogs
InitBeforeMerge ==
    /\ files = <<>>
    /\ pc = "Merge"
    /\ exc = "none"
    /\ loopIndex = Len(structClusterNames)
    /\ clustersCatalog = NoFrame
    /\ redshiftCatalog = NoFrame
    /\ galfitCatalog = NoFrame
    /\ matchedClusterDF = NoFrame
    /\ catalog = NoFrame
    /\ standardCriteria = <<>>
    /\ call = NoCall
    /\ ret = NoReturn
    /\ photoCatalog \in
          {[cols |-> PhotoCols, rows |-> rows] :
              rows \in SeqsUpTo({[cPHOTID |-> id, Cluster |-> structClusterNames[1],
                                  zspec |-> NaN, zphot |-> <<100 + id>>] :
                                 id \in {1, 2, 3}}, MaxRows)}
    /\ matchedCatalog \in
          {[cols |-> <<"cPHOTID", "re">>, rows |-> rows] :
              rows \in SeqsUpTo({[cPHOTID |-> id, re |-> <<r>>] :
                                 id \in {1, 2, 4}, r \in {1, 2}}, MaxRows)}

NextMerge == InitMerge

SpecMerge == InitBeforeMerge /\ [][NextMerge]_vars

(***************************************************************************)
(* Properties of getMembers, under SpecMembers.                            *)
(***************************************************************************)
\* the k-th smallest element of a set of numbers
Nth(S, k) == CHOOSE x \in S : Cardinality({y \in S : y < x}) = k - 1

\* the rows of frame at the indices S, in increasing order of index
RowsAt(frame, S) == [k \in 1..Cardinality(S) |-> frame.rows[Nth(S, k)]]

\* the redshift of the first row of the clusters catalog named name
RedshiftOf(name) ==
    clustersCatalog.rows[Nth({i \in 1..Len(clustersCatalog.rows) :
                                 clustersCatalog.rows[i].cluster = name}, 1)].Redshift

Named(name) == \E i \in 1..Len(clustersCatalog.rows) : clustersCatalog.rows[i].cluster = name

\* the catalog rows of cluster name
GalaxiesOf(name) == {i \in 1..Len(catalog.rows) : catalog.rows[i].Cluster = name}

\* |zspec - clusterZ| < 0.02*(1 + zspec) on a non-null zspec, in hundredths
SpecMembersOf(name) ==
    {i \in GalaxiesOf(name) :
        /\ catalog.rows[i].zspec # NaN
        /\ 50 * Abs(catalog.rows[i].zspec[1] - RedshiftOf(name))
              < 100 + catalog.rows[i].zspec[1]}

\* |zphot - clusterZ| < 0.08*(1 + zphot), in hundredths
PhotPassOf(name) ==
    {i \in GalaxiesOf(name) :
        /\ catalog.rows[i].zphot # NaN
        /\ 25 * Abs(catalog.rows[i].zphot[1] - RedshiftOf(name))
              < 2 * (100 + catalog.rows[i].zphot[1])}

PhotMembersOf(name) ==
    {i \in PhotPassOf(name) :
        \A j \in SpecMembersOf(name) : catalog.rows[j].cPHOTID # catalog.rows[i].cPHOTID}

C2_MembersSubsetAndDisjoint ==
    (call.op = "getMembers" /\ ret.ok) =>
        LET name    == call.args[1]
            nSpec   == Cardinality(SpecMembersOf(name))
            members == ret.val.rows
        IN  /\ getClusterGalaxies(name).ok
            /\ \A k \in 1..Len(members) :
                  \E i \in 1..Len(getClusterGalaxies(name).val.rows) :
                      members[k] = getClusterGalaxies(name).val.rows[i]
            /\ \A k \in 1..Len(members) : \A m \in 1..Len(members) :
                  (k <= nSpec /\ m > nSpec) => members[k].cPHOTID # members[m].cPHOTID

\* getMembers returned a spectroscopic member whose zphot is within the photometric
\* band too, and a photometric member after it
C2_Witness ==
    /\ call.op = "getMembers"
    /\ ret.ok
    /\ Len(ret.val.rows) = 2
    /\ ret.val.rows[1].zspec # NaN
    /\ ret.val.rows[2].zspec = NaN
    /\ SpecMembersOf(call.args[1]) \cap PhotPassOf(call.args[1]) # {}
    /\ ret.val.rows = catalog.rows

(***************************************************************************)
(* Properties of merge, under SpecMerge: the constructor's line 85 on      *)
(* drawn photometric (left) and matched (right) catalogs.                  *)
(***************************************************************************)
KeyUnique(frame, key) ==
    \A i, j \in 1..Len(frame.rows) : frame.rows[i][key] = frame.rows[j][key] => i = j

Holds(row, c) ==
    /\ row[c.col] # NaN
    /\ (c.op = ">" => row[c.col][1] > c.val)
    /\ (c.op = "<" => row[c.col][1] < c.val)

\* the criteria a reduceDF call applies
Applied(additionalCriteria, useStandards) ==
    Range(additionalCriteria.items)
    \cup (IF useStandards THEN Range(standardCriteria) ELSE {})

\* the orderings of a sequence
Orderings(s) == {t \in Arrangements(Range(s), Len(s)) : Len(t) = Len(s)}

\* C5: reduceDF returns exactly the rows of frame that satisfy every ad hoc
\* criterion and, if useStandards, every standard criterion, in their order in
\* frame (it raises if one of these criteria names no column of frame); the result
\* is the same for every ordering of the ad hoc criteria; with nothing to apply
\* (None or empty ad hoc list, and no standard criterion or useStandards false) the
\* table is returned unchanged.
C5_ReduceIsConjunction ==
    call.op = "reduceDF" =>
        LET frame   == call.args[1]
            adHoc   == call.args[2]
            useStd  == call.args[3]
            applied == Applied(adHoc, useStd)
        IN  /\ IF \A c \in applied : HasCol(frame, c.col)
               THEN /\ ret.ok
                    /\ ret.val.cols = frame.cols
                    /\ ret.val.rows =
                          SelectSeq(frame.rows, LAMBDA r : \A c \in applied : Holds(r, c))
               ELSE ~ret.ok
            /\ \A t \in Orderings(adHoc.items) : reduceDF(frame, List(t), useStd) = ret
            /\ applied = {} => ret = [ok |-> TRUE, val |-> frame]

\* a reduceDF call with two ad hoc criteria and a standard one that keeps one row
\* of two
C5_Witness ==
    /\ call.op = "reduceDF"
    /\ Len(call.args[2].items) = 2
    /\ call.args[3]
    /\ standardCriteria # <<>>
    /\ ret.ok
    /\ Len(call.args[1].rows) = 2
    /\ Len(ret.val.rows) = 1

\* C6: reducing with only the standard criteria is idempotent: reduceDF applied
\* with ([], True) to the table that reduceDF(t, [], True) returned returns that
\* table.
C6_StandardReduceIdempotent ==
    (call.op = "reduceDF" /\ call.args[2] = List(<<>>) /\ call.args[3] /\ ret.ok) =>
        reduceDF(ret.val, List(<<>>), TRUE) = ret

\* reduceDF(t, [], True) with standard criteria that keep one row of two
C6_Witness ==
    /\ call.op = "reduceDF"
    /\ call.args[2] = List(<<>>)
    /\ call.args[3]
    /\ standardCriteria # <<>>
    /\ ret.ok
    /\ Len(call.args[1].rows) = 2
    /\ Len(ret.val.rows) = 1

(***************************************************************************)
(* Properties of the constructor and of the calls after it, under Spec.    *)
(***************************************************************************)
\* the leading three decimal digits of a number (the number, below 1000)
RECURSIVE Leading3(_)
Leading3(n) == IF n < 1000 THEN n ELSE Leading3(n \div 10)

\* the cPHOTID of the first row of the photometric catalog tagged with cluster i
Sentinel(i) ==
    photoCatalog.rows[Nth({k \in 1..Len(photoCatalog.rows) :
                              photoCatalog.rows[k].Cluster = structClusterNames[i]}, 1)].cPHOTID

\* the matched file of cluster i, as the data directory holds it
MatchedFile(i) == files[MatchedFiles[i]]

\* C3: when the loop has remapped the matched table of a cluster, each of its rows
\* holds, under cPHOTID, the local PHOTCATID of the file's row plus idPrefix, where
\* idPrefix is 10^6 times the leading 3 decimal digits of the cPHOTID of the first
\* photometric row tagged with the cluster; local ID 7 with sentinel 100000042
\* becomes 100000007.
C3_RemapAddsPrefix ==
    pc = "AppendMatched" =>
        LET file == MatchedFile(loopIndex)
            pre  == Leading3(Sentinel(loopIndex)) * 1000000
        IN  /\ matchedClusterDF.cols = <<"cPHOTID", "re">>
            /\ Len(matchedClusterDF.rows) = Len(file.rows)
            /\ \A k \in 1..Len(file.rows) :
                  /\ matchedClusterDF.rows[k] =
                        [cPHOTID |-> file.rows[k].PHOTCATID + pre, re |-> file.rows[k].re]
                  /\ (Sentinel(loopIndex) = 100000042 /\ file.rows[k].PHOTCATID = 7)
                        => matchedClusterDF.rows[k].cPHOTID = 100000007

\* the remap of a file with local ID 7, for a cluster whose sentinel is 100000042
\* and whose photometric rows do not all lead with the same digits
C3_Witness ==
    /\ pc = "AppendMatched"
    /\ Sentinel(loopIndex) = 100000042
    /\ \E k \in 1..Len(photoCatalog.rows) :
          /\ photoCatalog.rows[k].Cluster = clusterName
          /\ Leading3(photoCatalog.rows[k].cPHOTID) # 100
    /\ \E k \in 1..Len(matchedClusterDF.rows) :
          /\ MatchedFile(loopIndex).rows[k].PHOTCATID = 7
          /\ matchedClusterDF.rows[k].cPHOTID = 100000007

\* rows of the matched catalog that come before those of cluster i
RECURSIVE Offset(_)
Offset(i) == IF i = 1 THEN 0 ELSE Offset(i - 1) + Len(MatchedFile(i - 1).rows)

\* C8: for every cluster and every row of its matched file, the canonical ID the
\* remap put in the matched catalog, minus the idPrefix of the cluster, is the
\* local PHOTCATID of the file.
C8_RemapRoundTrip ==
    pc \in {"Merge", "ready"} =>
        /\ Len(matchedCatalog.rows) = Offset(Len(structClusterNames) + 1)
        /\ \A i \in Clusters : \A k \in 1..Len(MatchedFile(i).rows) :
              matchedCatalog.rows[Offset(i) + k].cPHOTID - idPrefix(structClusterNames[i]).val
                 = MatchedFile(i).rows[k].PHOTCATID

\* a constructed object whose fifth cluster had two matched rows, with local IDs 42
\* and 7
C8_Witness ==
    /\ pc = "ready"
    /\ Len(MatchedFile(5).rows) = 2
    /\ matchedCatalog.rows[Offset(5) + 1].cPHOTID = 104000042
    /\ matchedCatalog.rows[Offset(5) + 2].cPHOTID = 104000007

QueryOps == {"getClusterZ", "getClusterGalaxies", "getMembers", "reduceDF"}

\* the last call, made again on the object as the call left it, returns what it
\* returned
RepeatedCallAgrees ==
    /\ call.op = "getClusterZ" => getClusterZ(call.args[1]) = ret
    /\ call.op = "getClusterGalaxies" => getClusterGalaxies(call.args[1]) = ret
    /\ call.op = "getMembers" => getMembers(call.args[1]) = ret
    /\ call.op = "reduceDF" => reduceDF(call.args[1], call.args[2], call.args[3]) = ret

\* C7: on the constructed object a call of getClusterZ, getClusterGalaxies,
\* getMembers or reduceDF changes neither the merged catalog, nor the clusters,
\* photometric, redshift, galfit and matched catalogs, nor the standard criteria,
\* and the same call made again right after it returns the same result.
C7_QueriesChangeNothing ==
    /\ [][(pc = "ready" /\ call'.op \in QueryOps) =>
             UNCHANGED <<catalog, clustersCatalog, photoCatalog, redshiftCatalog,
                         galfitCatalog, matchedCatalog, standardCriteria>>]_vars
    /\ [](pc = "ready" => RepeatedCallAgrees)

\* a reduceDF call that dropped rows of a table it was given, with standard
\* criteria set and a catalog of more rows than there are clusters
C7_Witness ==
    /\ pc = "ready"
    /\ call.op = "reduceDF"
    /\ ret.ok
    /\ Len(ret.val.rows) < Len(call.args[1].rows)
    /\ standardCriteria # <<>>
    /\ Len(catalog.rows) > Len(structClusterNames)

\* C9, as claimed: generateDF on a path whose extension is neither .fits nor .dat
\* fails with UnsupportedFormatError.
C9_UnsupportedFormatFails ==
    (call.op = "generateDF"
     /\ splitext(call.args[1]) \notin {<<".","f","i","t","s">>, <<".","d","a","t">>})
        => ret = [ok |-> FALSE, exc |-> "UnsupportedFormatError"]

\* name is raw without the blanks that lead and trail it
StrippedIs(raw, name) ==
    \E i, j \in 0..Len(raw) :
        /\ i + j <= Len(raw)
        /\ \A k \in 1..i : raw[k] \in Whitespace
        /\ \A k \in (Len(raw) - j + 1)..Len(raw) : raw[k] \in Whitespace
        /\ name = SubSeq(raw, i + 1, Len(raw) - j)
        /\ name # <<>> => (name[1] \notin Whitespace /\ name[Len(name)] \notin Whitespace)

\* the rows of Clusters.fits whose stripped name is name
EntriesOf(name) ==
    {k \in 1..Len(files[ClustersFile].rows) :
        StrippedIs(files[ClustersFile].rows[k].cluster, name)}

NoSentinel(i) ==
    \A k \in 1..Len(files[PhotoFile].rows) :
        files[PhotoFile].rows[k].Cluster # structClusterNames[i]

FileAtHand ==
    CASE pc = "LoadClusters" -> ClustersFile
      [] pc = "LoadPhoto"    -> PhotoFile
      [] pc = "LoadRedshift" -> RedshiftFile
      [] pc = "LoadGalfit"   -> GalfitFiles[loopIndex]
      [] pc = "LoadMatched"  -> MatchedFiles[loopIndex]

LoadSteps == {"LoadClusters", "LoadPhoto", "LoadRedshift", "LoadGalfit", "LoadMatched"}

\* every catalog holds the whole of its files, and the merged catalog is built
FullyPopulated ==
    /\ \A p \in AllFiles : files[p] # Missing
    /\ Len(clustersCatalog.rows) = Len(files[ClustersFile].rows)
    /\ photoCatalog = files[PhotoFile]
    /\ redshiftCatalog = files[RedshiftFile]
    /\ Len(galfitCatalog.rows) = Offset(1) + Len(structClusterNames)
    /\ \A i \in Clusters : galfitCatalog.rows[i] = files[GalfitFiles[i]].rows[1]
    /\ Len(matchedCatalog.rows) = Offset(Len(structClusterNames) + 1)
    /\ catalog # NoFrame
    /\ Len(catalog.rows) >= Len(photoCatalog.rows)

\* C12: when the file of the clusters, photometric or redshift catalog, or the
\* galfit or matched file of any cluster of the loop, cannot be loaded, init stops
\* there: no catalog changes in that step or ever after, no later load and no merge
\* runs, and a query is only ever answered by an object all of whose catalogs hold
\* all of their files.
C12_FailedLoadAbortsInit ==
    /\ [][(pc \in LoadSteps /\ files[FileAtHand] = Missing)
             => /\ pc' = "failed"
                /\ UNCHANGED <<clustersCatalog, photoCatalog, redshiftCatalog, galfitCatalog,
                               matchedCatalog, matchedClusterDF, catalog, call, ret>>]_vars
    /\ [][pc # "failed"]_vars
    /\ [](pc # "ready" => (call = NoCall /\ ret = NoReturn /\ catalog = NoFrame))
    /\ [](pc = "ready" => FullyPopulated)

\* the constructor failed on the missing matched file of the seventh cluster, with
\* seven galfit tables and six matched tables in its catalogs, and no call was
\* answered
C12_Witness ==
    /\ pc = "failed"
    /\ exc = "FileNotFoundError"
    /\ loopIndex = 7
    /\ files[MatchedFiles[7]] = Missing
    /\ Len(galfitCatalog.rows) = 7
    /\ matchedCatalog.rows # <<>>
    /\ Len(matchedCatalog.rows) = Offset(7)
    /\ catalog = NoFrame
    /\ call = NoCall

(***************************************************************************)
(* The rows merge keeps, under SpecMerge.                                  *)
(***************************************************************************)
\* the positions of the rows of a table whose cPHOTID is id
KeyedAt(rows, id) == {k \in 1..Len(rows) : rows[k].cPHOTID = id}

C14_RowsWithZspecPassSpecTest ==
    (call.op = "getMembers" /\ ret.ok) =>
        \A k \in 1..Len(ret.val.rows) :
            ret.val.rows[k].zspec # NaN
               => 50 * Abs(ret.val.rows[k].zspec[1] - RedshiftOf(call.args[1]))
                     < 100 + ret.val.rows[k].zspec[1]

(***************************************************************************)
(* The order of the steps of init, under Spec.                             *)
(***************************************************************************)
BeforeLoop == {"LoadClusters", "LoadPhoto", "LoadRedshift"}

InLoop == {"LoadGalfit", "LoadMatched", "Remap", "AppendMatched"}

\* the rows of the matched file of cluster i, remapped once: PHOTCATID is named
\* cPHOTID and holds the local ID plus 10^6 times the leading three digits of the
\* cluster's sentinel
RemappedOnce(i) ==
    [k \in 1..Len(MatchedFile(i).rows) |->
        [cPHOTID |-> MatchedFile(i).rows[k].PHOTCATID + Leading3(Sentinel(i)) * 1000000,
         re      |-> MatchedFile(i).rows[k].re]]

\* the matched catalog holds the remapped rows of clusters 1..n, in list order, and
\* nothing else
Appended(n) ==
    /\ Len(matchedCatalog.rows) = Offset(n + 1)
    /\ \A i \in 1..n :
          SubSeq(matchedCatalog.rows, Offset(i) + 1, Offset(i + 1)) = RemappedOnce(i)

\* C15: init runs in a fixed order.  The clusters, photometric and redshift
\* catalogs hold their files before the loop starts; the loop takes the 11
\* structural clusters one at a time in list order (galfit table, matched table,
\* remap, append); a matched table is appended after it was remapped once with the
\* idPrefix of its own cluster; the merge runs after the 11th append and is the
\* only step that sets the public catalog, so at the merge the matched catalog
\* holds, for each of the 11 clusters, the rows of its file remapped exactly once.
C15_InitRunsInOrder ==
    /\ [](pc \in BeforeLoop =>
             /\ loopIndex = 0
             /\ matchedCatalog = NoFrame /\ galfitCatalog = NoFrame /\ catalog = NoFrame
             /\ pc # "LoadClusters" => Len(clustersCatalog.rows) = Len(files[ClustersFile].rows)
             /\ pc = "LoadRedshift" => photoCatalog = files[PhotoFile])
    /\ [](pc \in InLoop =>
             /\ loopIndex \in Clusters
             /\ Len(clustersCatalog.rows) = Len(files[ClustersFile].rows)
             /\ photoCatalog = files[PhotoFile]
             /\ redshiftCatalog = files[RedshiftFile]
             /\ Appended(loopIndex - 1)
             /\ Len(galfitCatalog.rows)
                   = IF pc = "LoadGalfit" THEN loopIndex - 1 ELSE loopIndex
             /\ pc = "Remap" => matchedClusterDF = MatchedFile(loopIndex)
             /\ pc = "AppendMatched" => matchedClusterDF.rows = RemappedOnce(loopIndex)
             /\ catalog = NoFrame)
    /\ [](pc \in {"Merge", "ready"} =>
             /\ loopIndex = Len(structClusterNames)
             /\ Appended(Len(structClusterNames))
             /\ Len(galfitCatalog.rows) = Len(structClusterNames)
             /\ pc = "Merge" => catalog = NoFrame)
    /\ [][/\ pc' # pc =>
                CASE pc = "LoadClusters"  -> pc' \in {"LoadPhoto", "failed"}
                  [] pc = "LoadPhoto"     -> pc' \in {"LoadRedshift", "failed"}
                  [] pc = "LoadRedshift"  -> pc' \in {"LoadGalfit", "failed"}
                  [] pc = "LoadGalfit"    -> pc' \in {"LoadMatched", "failed"}
                  [] pc = "LoadMatched"   -> pc' \in {"Remap", "failed"}
                  [] pc = "Remap"         -> pc' \in {"AppendMatched", "failed"}
                  [] pc = "AppendMatched" ->
                        pc' = IF loopIndex = Len(structClusterNames)
                              THEN "Merge" ELSE "LoadGalfit"
                  [] pc = "Merge"         -> pc' \in {"ready", "failed"}
                  [] OTHER                -> FALSE
          /\ loopIndex' # loopIndex =>
                /\ loopIndex' = loopIndex + 1
                /\ pc = IF loopIndex = 0 THEN "LoadRedshift" ELSE "AppendMatched"
                /\ pc' = "LoadGalfit"
          /\ matchedCatalog' # matchedCatalog => pc = "AppendMatched"
          /\ catalog' # catalog => pc = "Merge"]_vars

\* init is at the merge: the matched catalog holds the rows of the 11 clusters,
\* two of them of the fifth cluster, each with the prefix of its cluster
C15_Witness ==
    /\ pc = "Merge"
    /\ loopIndex = 11
    /\ catalog = NoFrame
    /\ Len(matchedCatalog.rows) = 12
    /\ matchedCatalog.rows[1].cPHOTID = 100000042
    /\ matchedCatalog.rows[5].cPHOTID = 104000007
    /\ matchedCatalog.rows[6].cPHOTID = 104000042
    /\ matchedCatalog.rows[12].cPHOTID = 110000042

====
